---- MODULE Spec2Model ----
(***************************************************************************)
(* Story-processing pipeline of the storyteller application:               *)
(*   - the process-story edge function (worker) and the tables it writes,  *)
(*   - the realtime channel carrying UPDATE events on stories,             *)
(*   - the client: the useStories hook (createStory mutation, realtime     *)
(*     handler, loadStoryFeedback, getStoryById, timeout effect) and the   *)
(*     App component (completion effect, pollForFeedback effect, views).   *)
(* useStories.ts holds several iterations of the hook; hookVersion selects *)
(* the one a behaviour runs: "v1" is lines 6-260, "v2" is lines 266-504.   *)
(***************************************************************************)
EXTENDS Integers, FiniteSets, Sequences, TLC

\* ---------------------------------------------------------------- bounds
MaxStories == 2        \* stories one session submits
MaxInvocations == 1    \* process-story invocations running at the same time
MaxEvents == 1         \* realtime UPDATE events in flight (more are lost)
MaxTimers == 1         \* pending 100 ms hand-off timers per story (more are merged)
MaxCount == 2          \* counters saturate here (rows, hand-offs)
MaxAlerts == 1         \* the alert counter saturates here
MaxCalls == 1          \* in-flight getStoryById / loadStoryFeedback calls per story
MaxDay == 2            \* calendar days run from 0 to here
MaxWriters == 2        \* database sessions writing user_stats at once
ShortSeconds == 45     \* duration of a short recording

MarathonSeconds == 900 \* story.duration_seconds >= 900
SecondsPerMinute == 60
NoDate == -1           \* last_story_date IS NULL

NULL == 0
StoryIds == 1..MaxStories
Writers == 1..MaxWriters
Slots == 1..MaxInvocations
Statuses == {"pending", "processing", "completed", "failed"}
Views == {"dashboard", "record", "feedback"}
HookVersions == {"v1", "v2"}

VARIABLES
  status,            \* stories.processing_status per story id, "none" = no row
  feedbackRows,      \* number of story_feedback rows referencing the story
  transcript,        \* stories.transcript per story: "none", "real" or "mock"
  inv,               \* process-story invocations: position, story, waiter
  events,            \* realtime UPDATE payloads in flight
  hookVersion,       \* iteration of useStories this session runs
  mutation,          \* createStoryMutation: phase, story, response
  processingStoryId, \* useStories state
  cache,             \* react-query cache ['stories', user.id]
  currentView,       \* App state
  currentStory,      \* App state
  timers,            \* pending setTimeout(..., 100) hand-offs per captured story
  pollInFlight,      \* in-flight getStoryById calls of pollForFeedback
  loadInFlight,      \* in-flight loadStoryFeedback calls of the realtime handler
  pollStopped,       \* the 30 s cap cleared the poll interval
  handoffs,          \* history: hand-offs to the feedback view per story
  alerts,            \* history: alert() calls since the last submission
  lastExit,          \* history: what last cleared processingStoryId since then
  submissionsLeft,   \* stories the user of this session still records
  infra,             \* "healthy", or "flaky": OpenAI calls and reads may fail
  triggerVersion,    \* which migration defined update_user_stats last
  today,             \* the current calendar day, as a day number
  ledger,            \* stories rows as the stats see them: created day, duration
  userStats,         \* the owner's user_stats row
  grants,            \* user_achievements rows of the owner (achievement ids)
  writers            \* database sessions writing user_stats: what each has read

vars == <<status, feedbackRows, transcript, inv, events, hookVersion, mutation,
          processingStoryId, cache, currentView, currentStory, timers,
          pollInFlight, loadInFlight, pollStopped, handoffs, alerts, lastExit,
          submissionsLeft, infra, triggerVersion, today, ledger, userStats,
          grants, writers>>

\* writers moves only in the specification of concurrent stats writers
scenarioVars == <<infra, triggerVersion, today, writers>>
statsVars == <<ledger, userStats, grants>>

serverVars == <<status, feedbackRows, transcript, inv, events, statsVars>>
clientVars == <<mutation, processingStoryId, cache, currentView, currentStory,
                timers, pollInFlight, loadInFlight, pollStopped, handoffs,
                alerts, lastExit>>

Min(a, b) == IF a < b THEN a ELSE b
Sat(n) == Min(n, MaxCount)
Alerted(n) == Min(n + 1, MaxAlerts)

\* ---------------------------------------------------------------- server
\* signed-in users; every stories row and the user_stats row of the model
\* carry the user_id of StoryOwner
Users == {"owner", "other"}
StoryOwner == "owner"

FreeInv == [pc |-> "free", story |-> NULL, origin |-> "none", waiter |-> FALSE,
            marked |-> FALSE, transcript |-> "none", feedback |-> "none",
            statsSeen |-> 0, caller |-> "none"]
NoExit == [why |-> "none", story |-> NULL]
NoCache == [present |-> FALSE, status |-> "pending", fb |-> 0]
IdleMutation == [phase |-> "idle", story |-> NULL, resp |-> "none"]

\* postgres_changes UPDATE on stories: the payload is the row as committed
Emit(ev, s, st) ==
  IF Cardinality(ev) < MaxEvents THEN ev \cup {[id |-> s, status |-> st]} ELSE ev

InFlight(s) == \E i \in Slots : inv[i].pc # "free" /\ inv[i].story = s

FreeSlot == CHOOSE i \in Slots : inv[i].pc = "free" /\ \A j \in Slots : j < i => inv[j].pc # "free"
HasFreeSlot == \E i \in Slots : inv[i].pc = "free"

\* an HTTP request reaches Deno.serve: req.json() is read, the handler starts
StartInvocation(s, from) ==
  [inv EXCEPT ![FreeSlot] = [FreeInv EXCEPT !.pc = "mark", !.story = s,
                                           !.origin = from,
                                           !.waiter = (from = "submit"),
                                           !.caller = StoryOwner]]

\* ----------------------------------------------------------------- stats
Days == 0..MaxDay
Durations == {ShortSeconds, MarathonSeconds}
TriggerVersions == {"late_flame", "part_008"}
Achievements == {"first_story", "marathon_storyteller"}
\* two of the six genres the recorder offers; NoGenre is the SQL NULL
Genres == {"adventure", "mystery"}
NoGenre == "null"
\* storyData.genre of the stories this session records
RecordedGenre == "adventure"

\* seq orders the rows by created_at
NoStory == [present |-> FALSE, day |-> 0, dur |-> 0, genre |-> NoGenre, seq |-> 0]
\* updated_at is kept as the number of writes the row has seen
NoStats == [exists |-> FALSE, total_stories |-> 0, total_minutes |-> 0,
            current_streak |-> 0, longest_streak |-> 0,
            last_story_date |-> NoDate, updated_at |-> 0,
            favorite_genre |-> NoGenre]

Max(a, b) == IF a > b THEN a ELSE b

\* NEW.duration_seconds / 60 on integers: the quotient is truncated
FloorMinutes(d) == d \div SecondsPerMinute

\* CEIL(NEW.duration_seconds / 60.0) and Math.ceil(duration_seconds / 60)
CeilMinutes(d) == (d + SecondsPerMinute - 1) \div SecondsPerMinute

\* update_user_stats() of 20250628192736_late_flame.sql: the streak columns
\* are not named, so they keep their default 0 or their old value
UpdateUserStatsLateFlame(st, now, d) ==
  IF ~st.exists
  THEN [NoStats EXCEPT !.exists = TRUE, !.total_stories = 1,
                       !.total_minutes = FloorMinutes(d),
                       !.last_story_date = now, !.updated_at = 1]
  ELSE [st EXCEPT !.total_stories = @ + 1,
                  !.total_minutes = @ + FloorMinutes(d),
                  !.last_story_date = now, !.updated_at = @ + 1]

\* the CASE on days_diff of part_008; a NULL last_story_date makes days_diff
\* NULL, no WHEN matches and the ELSE arm resets the streak to 1
StreakAfterInsert(st, story_date) ==
  IF st.last_story_date = NoDate THEN 1
  ELSE IF story_date - st.last_story_date = 1 THEN st.current_streak + 1
  ELSE IF story_date - st.last_story_date = 0 THEN st.current_streak
  ELSE 1

\* a trigger that would count a story only when the row is created
UpdateUserStatsPart008Uncounted(st, story_date, d) ==
  IF ~st.exists
  THEN [NoStats EXCEPT !.exists = TRUE, !.total_stories = 1,
                       !.total_minutes = CeilMinutes(d),
                       !.current_streak = 1, !.longest_streak = 1,
                       !.last_story_date = story_date, !.updated_at = 1]
  ELSE [st EXCEPT !.total_minutes = @ + CeilMinutes(d),
                  !.last_story_date = story_date, !.updated_at = @ + 1]
\* update_user_stats() of part_008
UpdateUserStatsPart008(st, story_date, d) ==
  IF ~st.exists
  THEN [NoStats EXCEPT !.exists = TRUE, !.total_stories = 1,
                       !.total_minutes = CeilMinutes(d),
                       !.current_streak = 1, !.longest_streak = 1,
                       !.last_story_date = story_date, !.updated_at = 1]
  ELSE [st EXCEPT !.total_stories = @ + 1,
                  !.total_minutes = @ + CeilMinutes(d),
                  !.current_streak = StreakAfterInsert(st, story_date),
                  !.longest_streak = Max(@, StreakAfterInsert(st, story_date)),
                  !.last_story_date = story_date, !.updated_at = @ + 1]

\* a deployment whose stories table has no stats trigger
UpdateUserStatsSkipped(st, now, d) == st

\* the trigger update_stats_on_story_insert runs the function defined last
UpdateUserStats(st, now, d) ==
  IF triggerVersion = "late_flame" THEN UpdateUserStatsLateFlame(st, now, d)
  ELSE UpdateUserStatsPart008(st, now, d)

PresentIn(l) == {s \in StoryIds : l[s].present}

GenreCount(l, g) == Cardinality({s \in PresentIn(l) : l[s].genre = g})
GenresOf(l) == {l[s].genre : s \in PresentIn(l)}
TopGenres(l) ==
  {g \in GenresOf(l) : \A h \in GenresOf(l) : GenreCount(l, g) >= GenreCount(l, h)}

\* SELECT genre ... GROUP BY genre ORDER BY COUNT(*) DESC LIMIT 1 of part_008:
\* nothing orders genres of equal count, the database returns any of them
FavoriteGenrePart008(l) == IF PresentIn(l) = {} THEN {NoGenre} ELSE TopGenres(l)

\* favorite_genre after the insert trigger: late_flame does not name the
\* column, nor does the INSERT branch of part_008 (42-56); its UPDATE branch
\* runs the subquery over the stories including the new row
FavoriteAfterInsert(st, l) ==
  IF triggerVersion = "late_flame" \/ ~st.exists THEN {st.favorite_genre}
  ELSE FavoriteGenrePart008(l)

\* created_at of the next row: later submissions get larger stamps
Stamp == MaxStories + 1 - submissionsLeft

\* INSERT INTO stories: the row and, in the same transaction, the trigger
InsertRowOf(s, d, g) ==
  LET l == [ledger EXCEPT ![s] = [present |-> TRUE, day |-> today, dur |-> d,
                                  genre |-> g, seq |-> Stamp]]
  IN
  /\ ledger' = l
  /\ \E f \in FavoriteAfterInsert(userStats, l) :
       userStats' = [UpdateUserStats(userStats, today, d) EXCEPT !.favorite_genre = f]

InsertRow(s, d) == InsertRowOf(s, d, RecordedGenre)

\* the rows .order('created_at', { ascending: false }) returns, as story ids
RECURSIVE IdsDesc(_, _)
IdsDesc(l, S) ==
  IF S = {} THEN << >>
  ELSE LET s == CHOOSE x \in S : \A y \in S : l[x].seq >= l[y].seq
       IN  <<s>> \o IdsDesc(l, S \ {s})

\* the keys of genreCounts in insertion order: stories.forEach adds a genre
\* the first time it meets it (154-157)
RECURSIVE GenreKeys(_, _, _)
GenreKeys(l, ids, keys) ==
  IF ids = << >> THEN keys
  ELSE LET g == l[Head(ids)].genre
       IN  GenreKeys(l, Tail(ids),
                     IF \E k \in 1..Len(keys) : keys[k] = g THEN keys
                     ELSE Append(keys, g))

\* Object.entries(genreCounts).sort(([,a], [,b]) => b - a)[0]?.[0] || null:
\* the sort is stable, so of the genres with the highest count the one met
\* first stays first
FavoriteGenreAfterDeletion(l) ==
  LET keys == GenreKeys(l, IdsDesc(l, PresentIn(l)), << >>) IN
  IF keys = << >> THEN NoGenre
  ELSE keys[CHOOSE k \in 1..Len(keys) :
              /\ \A j \in 1..Len(keys) : GenreCount(l, keys[k]) >= GenreCount(l, keys[j])
              /\ \A j \in 1..(k - 1) : GenreCount(l, keys[j]) < GenreCount(l, keys[k])]

\* .order('created_at', { ascending: false }): the days of the rows, latest first
RECURSIVE DaysDesc(_, _)
DaysDesc(l, S) ==
  IF S = {} THEN << >>
  ELSE LET s == CHOOSE x \in S : \A y \in S : l[x].day >= l[y].day
       IN  <<l[s].day>> \o DaysDesc(l, S \ {s})

\* stories.reduce((sum, story) => sum + Math.ceil(story.duration_seconds / 60), 0)
RECURSIVE TotalMinutes(_, _)
TotalMinutes(l, S) ==
  IF S = {} THEN 0
  ELSE LET s == CHOOSE x \in S : TRUE
       IN  CeilMinutes(l[s].dur) + TotalMinutes(l, S \ {s})

\* the for loop of updateUserStatsAfterDeletion from index i on
RECURSIVE StreakLoop(_, _, _, _)
StreakLoop(days, i, currentStreak, now) ==
  IF i > Len(days) THEN currentStreak
  ELSE IF now - days[i] = currentStreak
       THEN StreakLoop(days, i + 1, currentStreak + 1, now)
       ELSE currentStreak

\* a recomputation that would only stamp the row
UpdateUserStatsAfterDeletionStale(st, l, now) ==
  IF ~st.exists THEN st ELSE [st EXCEPT !.updated_at = @ + 1]

\* the row updateUserStatsAfterDeletion leaves: .update(...).eq('user_id', userId)
\* names every column but longest_streak, and touches no row when none exists
UpdateUserStatsAfterDeletion(st, l, now) ==
  LET days == DaysDesc(l, PresentIn(l)) IN
  IF ~st.exists THEN st
  ELSE [st EXCEPT !.total_stories = Len(days),
                  !.total_minutes = TotalMinutes(l, PresentIn(l)),
                  !.current_streak = StreakLoop(days, 1, 0, now),
                  !.last_story_date = IF Len(days) > 0 THEN days[1] ELSE NoDate,
                  !.favorite_genre = FavoriteGenreAfterDeletion(l),
                  !.updated_at = @ + 1]

\* a database session that is not writing user_stats
IdleWriter == [pc |-> "idle", story |-> NULL, dur |-> 0, seq |-> 0, record |-> NoStats,
               rows |-> [s \in StoryIds |-> NoStory]]

\* achievementsToGrant, in the order the criteria push onto it; century_club,
\* week_warrior and master_storyteller need 100 stories or a 7-day streak
AchievementsToGrant(st, story) ==
  (IF st.total_stories = 1 THEN <<"first_story">> ELSE << >>)
  \o (IF story.dur >= MarathonSeconds THEN <<"marathon_storyteller">> ELSE << >>)

\* an upsert in place of the update: the row would be written back
UpdatedUpserting(s, st) == [status EXCEPT ![s] = st]

\* .update({ processing_status: st }).eq('id', s) by the service-role client:
\* the row with that id is written; when no row has it, nothing is written
\* and no error is returned
Updated(s, st) == IF status[s] = "none" THEN status ELSE [status EXCEPT ![s] = st]

\* the UPDATE event of that write, if a row was written
Emitted(s, st) == IF status[s] = "none" THEN events ELSE Emit(events, s, st)

\* a first write that would put the story back to 'pending'
ProcessingStatusReset == "pending"

\* the status literal of the worker's first write
ProcessingStatus == "processing"

\* .update({ processing_status: 'processing' }).eq('id', storyId)
MarkProcessing(i) ==
  /\ inv[i].pc = "mark"
  /\ \/ /\ status' = Updated(inv[i].story, ProcessingStatus)
        /\ events' = Emitted(inv[i].story, ProcessingStatus)
        /\ inv' = [inv EXCEPT ![i].pc = "transcribe", ![i].marked = TRUE]
     \/ /\ inv' = [inv EXCEPT ![i].pc = "catch"]       \* updateError: throw
        /\ UNCHANGED <<status, events>>
  /\ UNCHANGED <<feedbackRows, transcript, hookVersion, submissionsLeft, scenarioVars>>
  /\ UNCHANGED statsVars
  /\ UNCHANGED clientVars

\* a transcribeAudio that would let its errors reach the handler's catch
TranscriptOfStrict(ok) == IF ok THEN "real" ELSE "none"

\* what transcribeAudio returns: the Whisper text, or getMockTranscript() when
\* the key is missing, the download fails or the API answers with an error
TranscriptOf(ok) == IF ok THEN "real" ELSE "mock"

\* const transcript = await transcribeAudio(audioUrl): with a transcript the
\* handler goes on to generateFeedback, an exception would reach the catch
TranscribeAudioWith(i, ok) ==
  /\ inv[i].pc = "transcribe"
  /\ inv' = [inv EXCEPT ![i].transcript = TranscriptOf(ok),
                        ![i].pc = IF TranscriptOf(ok) = "none" THEN "catch"
                                  ELSE "generate"]
  /\ UNCHANGED <<status, feedbackRows, transcript, events, hookVersion, submissionsLeft, scenarioVars>>
  /\ UNCHANGED statsVars
  /\ UNCHANGED clientVars

\* the Whisper call answers in a healthy deployment and may fail in a flaky one
TranscriptionResults == IF infra = "flaky" THEN BOOLEAN ELSE {TRUE}

TranscribeAudio(i) == \E ok \in TranscriptionResults : TranscribeAudioWith(i, ok)

\* what the OpenAI chat call can come to: a reply matching the schema, a
\* failed call (no key, network, HTTP error), a reply that is not JSON, JSON
\* without detailed_feedback, JSON without score
FeedbackOutcomes == {"ok", "callFailed", "unparseable", "noDetailed", "noScore"}

\* a generateFeedback that would treat every failure and every reply not
\* matching the schema as an error
FeedbackOfStrict(o) == IF o = "ok" THEN "real" ELSE "none"

\* what generateFeedback returns (180-273): getMockFeedback() for a failed
\* call and for a reply that does not parse, the parsed reply otherwise, with
\* score defaulting to 7 and detailed_feedback left undefined when missing
FeedbackOf(o) ==
  CASE o \in {"ok", "noScore"} -> "real"
    [] o \in {"callFailed", "unparseable"} -> "mock"
    [] OTHER -> "none"

\* const feedback = await generateFeedback(...), then line 49:
\* feedback.detailed_feedback.substring throws when it is undefined
GenerateFeedbackWith(i, o) ==
  /\ inv[i].pc = "generate"
  /\ inv' = [inv EXCEPT ![i].feedback = FeedbackOf(o),
                        ![i].pc = IF FeedbackOf(o) = "none" THEN "catch"
                                  ELSE "insert"]
  /\ UNCHANGED <<status, feedbackRows, transcript, events, hookVersion, submissionsLeft, scenarioVars>>
  /\ UNCHANGED statsVars
  /\ UNCHANGED clientVars

\* in a healthy deployment the chat call answers with JSON; what the JSON
\* holds is up to the language model in every deployment
FeedbackResults ==
  IF infra = "flaky" THEN FeedbackOutcomes ELSE {"ok", "noDetailed"}

GenerateFeedback(i) == \E o \in FeedbackResults : GenerateFeedbackWith(i, o)

\* a handler that would ignore feedbackError and go on to the final update
AfterFeedbackErrorIgnored == "complete"

\* where the handler goes when the story_feedback insert returns an error
AfterFeedbackError == "catch"

\* .from('story_feedback').insert({ story_id: storyId, ... })
SaveFeedback(i) ==
  /\ inv[i].pc = "insert"
  /\ \/ /\ status[inv[i].story] # "none"   \* story_id REFERENCES stories(id)
        /\ feedbackRows' = [feedbackRows EXCEPT ![inv[i].story] = Sat(@ + 1)]
        /\ inv' = [inv EXCEPT ![i].pc = "complete"]
     \/ /\ inv' = [inv EXCEPT ![i].pc = AfterFeedbackError]   \* feedbackError
        /\ UNCHANGED feedbackRows
  /\ UNCHANGED <<status, transcript, events, hookVersion, submissionsLeft, scenarioVars>>
  /\ UNCHANGED statsVars
  /\ UNCHANGED clientVars

\* .update({ transcript, processing_status: 'completed' }).eq('id', storyId)
CompleteStory(i) ==
  /\ inv[i].pc = "complete"
  /\ \/ /\ status' = Updated(inv[i].story, "completed")
        /\ transcript' = IF status[inv[i].story] = "none" THEN transcript
                         ELSE [transcript EXCEPT ![inv[i].story] = inv[i].transcript]
        /\ events' = Emitted(inv[i].story, "completed")
        /\ inv' = [inv EXCEPT ![i].pc = "achievements",
                              ![i].statsSeen = userStats.updated_at]
     \/ /\ inv' = [inv EXCEPT ![i].pc = "catch"]       \* finalUpdateError
        /\ UNCHANGED <<status, transcript, events>>
  /\ UNCHANGED <<feedbackRows, hookVersion, submissionsLeft, scenarioVars>>
  /\ UNCHANGED statsVars
  /\ UNCHANGED clientVars

\* the response reaches the awaiting createStory mutation, if it still waits
Respond(i, r) ==
  /\ inv' = [inv EXCEPT ![i] = FreeInv]
  /\ mutation' = IF inv[i].waiter THEN [mutation EXCEPT !.resp = r] ELSE mutation

\* .insert({...}).onConflict('user_id,achievement_id').ignore(): the builder
\* that insert() of supabase-js@2 (line 1) returns has no onConflict method,
\* so the chain throws a TypeError before any request is sent
GrantThrows == TRUE

\* how one pass of the grant loop for achievement a ends
GrantOutcome(a) ==
  IF GrantThrows THEN "threw"
  ELSE IF a \in grants THEN "ignored" ELSE "granted"

\* one pass of the grant loop for achievement a: a throw leaves the loop
GrantAttempt(a) ==
  grants' = IF GrantOutcome(a) = "granted" THEN grants \cup {a} ELSE grants

\* the two reads of checkAchievements answer in a healthy deployment
ReadResults == IF infra = "flaky" THEN BOOLEAN ELSE {TRUE}

\* a handler that would let an exception of checkAchievements reach its catch
AchievementsResponsePropagating(threw) == IF threw THEN "error" ELSE "ok"

\* checkAchievements catches and logs whatever its body throws, so line 83
\* never throws and the handler returns Response 200 { success: true }
AchievementsResponse(threw) == "ok"

\* await checkAchievements(supabaseClient, storyId), then the Response; readOk
\* tells whether the reads of stories and user_stats returned data
\* what a run for story s has in achievementsToGrant when the loop starts:
\* nothing after "if (!story) return" or "if (!stats) return"
ToGrant(s, readOk) ==
  IF readOk /\ ledger[s].present /\ userStats.exists
  THEN AchievementsToGrant(userStats, ledger[s]) ELSE << >>

CheckAchievementsWith(i, readOk) ==
  LET toGrant == ToGrant(inv[i].story, readOk)
      threw == toGrant # << >> /\ GrantOutcome(toGrant[1]) = "threw"
  IN
  /\ inv[i].pc = "achievements"
  /\ IF toGrant # << >> THEN GrantAttempt(toGrant[1])
     ELSE UNCHANGED grants
  /\ Respond(i, AchievementsResponse(threw))
  /\ UNCHANGED <<ledger, userStats>>
  /\ UNCHANGED <<status, feedbackRows, transcript, events, hookVersion, submissionsLeft, scenarioVars>>
  /\ UNCHANGED <<processingStoryId, cache, currentView, currentStory, timers,
                 pollInFlight, loadInFlight, pollStopped, handoffs, alerts, lastExit>>

\* a catch block whose update to 'failed' would be issued
StatusAfterCatchFailed(old) == "failed"
\* the status a story has after the catch block ran: the body of req was read
\* at line 28, so the second req.json() (line 105) rejects, the inner catch
\* logs it and the update to 'failed' is never issued
StatusAfterCatch(old) == old

CheckAchievements(i) == \E readOk \in ReadResults : CheckAchievementsWith(i, readOk)

\* catch (error) { try { ... await req.json() ... } catch {} ; Response 500 }
CatchError(i) ==
  /\ inv[i].pc = "catch"
  /\ status' = [status EXCEPT ![inv[i].story] = StatusAfterCatch(@)]
  /\ Respond(i, "error")
  /\ UNCHANGED <<feedbackRows, transcript, events, hookVersion, submissionsLeft, scenarioVars>>
  /\ UNCHANGED statsVars
  /\ UNCHANGED <<processingStoryId, cache, currentView, currentStory, timers,
                 pollInFlight, loadInFlight, pollStopped, handoffs, alerts, lastExit>>

\* ---------------------------------------------------------------- client
\* the App/useStories state one render sees, as a record
Client == [pid |-> processingStoryId, view |-> currentView, cur |-> currentStory,
           timers |-> timers, alerts |-> alerts, exit |-> lastExit]

\* App completion effect (App.tsx 45-102), run once against the cache ch
CompletionEffect(c, ch) ==
  LET p == c.pid IN
  IF p = NULL \/ ~(\E s \in StoryIds : ch[s].present) THEN c
  ELSE IF ~ch[p].present THEN c
  ELSE IF ch[p].status = "completed" THEN
         IF ch[p].fb > 0
         THEN [c EXCEPT !.cur = NULL, !.timers[p] = Min(@ + 1, MaxTimers)]
         ELSE c
  ELSE IF ch[p].status = "failed" THEN
         [c EXCEPT !.alerts = Alerted(@), !.pid = NULL, !.view = "record",
                   !.exit = [why |-> "effectFailed", story |-> p]]
  ELSE c

\* a render runs the effect; state the effect sets causes one more render
Render(c, ch) ==
  LET c1 == CompletionEffect(c, ch) IN
  IF <<c1.pid, c1.view, c1.cur>> # <<c.pid, c.view, c.cur>>
  THEN CompletionEffect(c1, ch) ELSE c1

\* React renders only when a handler changed state or the cached list
Settle(c, ch) ==
  IF <<c.pid, c.view, c.cur>> # <<processingStoryId, currentView, currentStory>>
     \/ ch # cache
  THEN Render(c, ch) ELSE c

Rendered(c, ch) ==
  <<c.pid, c.view, c.cur>> # <<processingStoryId, currentView, currentStory>>
  \/ ch # cache

\* commit a handler's result: state, then the renders it causes; the poll
\* effect is torn down and set up again at every render (getStoryById is a
\* new function each time), which restarts its 30 s cap
Commit(c, ch) ==
  LET d == Settle(c, ch) IN
  /\ processingStoryId' = d.pid
  /\ currentView' = d.view
  /\ currentStory' = d.cur
  /\ timers' = d.timers
  /\ alerts' = d.alerts
  /\ lastExit' = d.exit
  /\ cache' = ch
  /\ pollStopped' = IF Rendered(c, ch) THEN FALSE ELSE pollStopped

\* setProcessingStoryId(null), remembering which path cleared a tracked id
ClearTracking(c, why) ==
  IF c.pid = NULL THEN c
  ELSE [c EXCEPT !.pid = NULL, !.exit = [why |-> why, story |-> c.pid]]

\* a handler that writes the cache (setQueryData) and then sets state: React
\* may render the cache change on its own first (batched = FALSE) or both
\* together; which one depends on the React and react-query scheduling
RenderedBetween(c, ch, batched) ==
  IF batched \/ ch = cache THEN c ELSE Render(c, ch)

\* a render caused by state outside this model (auth, stats and achievement
\* queries, isCreatingStory): refreshStats is a new function at every render,
\* so the completion effect runs again
Rerender ==
  /\ LET d == Render(Client, cache) IN
       /\ processingStoryId' = d.pid
       /\ currentView' = d.view
       /\ currentStory' = d.cur
       /\ timers' = d.timers
       /\ alerts' = d.alerts
       /\ lastExit' = d.exit
  /\ pollStopped' = FALSE
  /\ UNCHANGED <<cache, mutation, pollInFlight, loadInFlight, handoffs, hookVersion, submissionsLeft, scenarioVars>>
  /\ UNCHANGED serverVars

\* handleViewChange / onNewStory: the navigation buttons
HandleViewChange(v) ==
  /\ v \in {"dashboard", "record"}
  /\ Commit([Client EXCEPT !.cur = NULL, !.view = v], cache)
  /\ UNCHANGED <<mutation, pollInFlight, loadInFlight, handoffs, hookVersion, submissionsLeft, scenarioVars>>
  /\ UNCHANGED serverVars

\* the rows a select of stories with story_feedback(*) returns
Snapshot ==
  [s \in StoryIds |->
     IF status[s] = "none" THEN NoCache
     ELSE [present |-> TRUE, status |-> status[s], fb |-> feedbackRows[s]]]

\* useQuery queryFn (db.getUserStories): refetch on focus, reconnect or
\* invalidateQueries(['stories', user.id])
RefetchStories ==
  /\ Commit(Client, Snapshot)
  /\ UNCHANGED <<mutation, pollInFlight, loadInFlight, handoffs, hookVersion, submissionsLeft, scenarioVars>>
  /\ UNCHANGED serverVars

\* ------------------------------------------------- createStory mutation
NextId == CHOOSE s \in StoryIds : status[s] = "none" /\ \A r \in StoryIds : r < s => status[r] # "none"

\* App.handleStoryComplete: the recorder is rendered only when nothing is
\* being created or tracked and the view is 'record' (App.tsx 517-530)
HandleStoryComplete ==
  /\ mutation.phase = "idle"
  /\ processingStoryId = NULL
  /\ currentView = "record"
  /\ submissionsLeft > 0
  /\ \A s \in StoryIds : timers[s] = 0     \* recording takes longer than 100 ms
  /\ \E s \in StoryIds : status[s] = "none"
  /\ submissionsLeft' = submissionsLeft - 1
  /\ mutation' = [IdleMutation EXCEPT !.phase = "upload"]
  /\ Commit([Client EXCEPT !.cur = NULL, !.alerts = 0, !.exit = NoExit], cache)
  /\ UNCHANGED <<pollInFlight, loadInFlight, handoffs, hookVersion, scenarioVars>>
  /\ UNCHANGED serverVars

\* onError: setProcessingStoryId(null)
OnError ==
  /\ mutation' = IdleMutation
  /\ Commit(ClearTracking(Client, "submitError"), cache)
  /\ UNCHANGED <<pollInFlight, loadInFlight, handoffs, hookVersion, submissionsLeft, scenarioVars>>

\* storage.uploadAudio
UploadAudio ==
  /\ mutation.phase = "upload"
  /\ \/ /\ mutation' = [mutation EXCEPT !.phase = "create"]
        /\ UNCHANGED <<processingStoryId, cache, currentView, currentStory, timers,
                       pollInFlight, loadInFlight, pollStopped, handoffs, alerts,
                       lastExit, hookVersion, submissionsLeft, scenarioVars>>
     \/ OnError                                        \* uploadError: throw
  /\ UNCHANGED serverVars

\* duration_seconds of the recordings a session submits
RecordedSeconds == ShortSeconds

\* db.createStory({ ..., processing_status: 'pending' })
CreateStory ==
  /\ mutation.phase = "create"
  /\ \/ /\ status' = [status EXCEPT ![NextId] = "pending"]
        /\ InsertRow(NextId, RecordedSeconds)
        /\ UNCHANGED grants
        /\ mutation' = [mutation EXCEPT !.phase = "trigger", !.story = NextId]
        /\ UNCHANGED <<processingStoryId, cache, currentView, currentStory, timers,
                       pollInFlight, loadInFlight, pollStopped, handoffs, alerts,
                       lastExit, hookVersion, submissionsLeft, scenarioVars>>
     \/ /\ OnError                                     \* storyError: throw
        /\ UNCHANGED <<status, statsVars>>
  /\ UNCHANGED <<feedbackRows, transcript, inv, events>>

\* fetch(.../functions/v1/process-story) is sent and the handler starts
TriggerProcessing ==
  /\ mutation.phase = "trigger"
  /\ HasFreeSlot
  /\ inv' = StartInvocation(mutation.story, "submit")
  /\ mutation' = [mutation EXCEPT !.phase = "await"]
  /\ UNCHANGED <<status, feedbackRows, transcript, events, hookVersion, submissionsLeft, scenarioVars>>
  /\ UNCHANGED statsVars
  /\ UNCHANGED <<processingStoryId, cache, currentView, currentStory, timers,
                 pollInFlight, loadInFlight, pollStopped, handoffs, alerts, lastExit>>

\* onSuccess: the row db.createStory returned is put first in the cached list
\* and becomes the tracked story
OnSuccess(s) ==
  /\ mutation' = IdleMutation
  /\ Commit([Client EXCEPT !.pid = s],
            [cache EXCEPT ![s] = [present |-> TRUE, status |-> "pending", fb |-> 0]])
  /\ UNCHANGED <<pollInFlight, loadInFlight, handoffs, hookVersion, submissionsLeft, scenarioVars>>

\* what the mutation does with the outcome r of the trigger fetch:
\* v1 (166-191) logs every failure and returns the story;
\* v2 (422-455) writes 'failed' with db.updateStory and rethrows
TriggerOutcome(r) ==
  IF hookVersion = "v1" \/ r = "ok"
  THEN /\ OnSuccess(mutation.story)
       /\ UNCHANGED <<status, events>>
  ELSE /\ \/ /\ status' = [status EXCEPT ![mutation.story] = "failed"]
             /\ events' = Emit(events, mutation.story, "failed")
          \/ UNCHANGED <<status, events>>              \* updateStory returns an error
       /\ OnError

\* the response of process-story arrives
ResponseArrives ==
  /\ mutation.phase = "await"
  /\ mutation.resp # "none"
  /\ TriggerOutcome(mutation.resp)
  /\ UNCHANGED <<feedbackRows, transcript, inv, statsVars>>

\* fetch rejects (network error, gateway timeout); a handler that has
\* started keeps running without anyone waiting for its response
FetchRejects ==
  /\ mutation.phase \in {"trigger", "await"}
  /\ mutation.resp = "none"
  /\ inv' = [i \in Slots |-> IF inv[i].waiter THEN [inv[i] EXCEPT !.waiter = FALSE] ELSE inv[i]]
  /\ TriggerOutcome("network")
  /\ UNCHANGED <<feedbackRows, transcript, statsVars>>

\* StoryDetailModal.handleGenerateFeedback: the button is rendered for a
\* failed or processing story and for a completed one without feedback
HandleGenerateFeedback(s) ==
  /\ mutation.phase = "idle"
  /\ processingStoryId = NULL
  /\ currentView = "dashboard"
  /\ \/ status[s] \in {"failed", "processing"}
     \/ status[s] = "completed" /\ feedbackRows[s] = 0
  /\ HasFreeSlot
  /\ inv' = StartInvocation(s, "retry")
  /\ UNCHANGED <<status, feedbackRows, transcript, events, hookVersion, submissionsLeft, scenarioVars>>
  /\ UNCHANGED statsVars
  /\ UNCHANGED clientVars

\* ------------------------------------------------------ realtime channel
\* setQueryData in the UPDATE handler: { ...story, ...updatedStory }
MergeUpdate(ch, e) ==
  IF ch[e.id].present THEN [ch EXCEPT ![e.id].status = e.status] ELSE ch

\* the UPDATE handler of the subscription (v1 43-75, v2 303-322) receives an
\* event
HandleUpdate(e) ==
  /\ e \in events
  /\ events' = events \ {e}
  /\ \E batched \in BOOLEAN :
     LET tracked == processingStoryId = e.id
         ch == MergeUpdate(cache, e)
         c == IF hookVersion = "v1" /\ e.status = "failed" /\ tracked
              THEN ClearTracking(RenderedBetween(Client, ch, batched), "pushFailed")
              ELSE Client
     IN /\ Commit(c, ch)
        /\ loadInFlight' = IF e.status = "completed" /\ tracked
                           THEN [loadInFlight EXCEPT ![e.id] = Min(@ + 1, MaxCalls)]
                           ELSE loadInFlight
  /\ UNCHANGED <<status, feedbackRows, transcript, inv, mutation, pollInFlight, handoffs, hookVersion, submissionsLeft, scenarioVars>>
  /\ UNCHANGED statsVars

\* an event never reaches the client
DropEvent(e) ==
  /\ e \in events
  /\ events' = events \ {e}
  /\ UNCHANGED <<status, feedbackRows, transcript, inv, hookVersion, submissionsLeft, scenarioVars>>
  /\ UNCHANGED statsVars
  /\ UNCHANGED clientVars

\* what the handler does once loadStoryFeedback has settled: loadStoryFeedback
\* catches its own errors, so v1's .then(() => setProcessingStoryId(null))
\* runs whether or not feedback was loaded; v2 has no continuation
AfterLoad(c) ==
  IF hookVersion = "v1" THEN ClearTracking(c, "loaded") ELSE c

\* loadStoryFeedback (85-114) settles: on success story_feedback of the
\* cached story is replaced by the rows selected
LoadStoryFeedback(s) ==
  /\ loadInFlight[s] > 0
  /\ loadInFlight' = [loadInFlight EXCEPT ![s] = @ - 1]
  /\ \E ok, batched \in BOOLEAN :
       LET ch == IF ok /\ cache[s].present
                 THEN [cache EXCEPT ![s].fb = feedbackRows[s]] ELSE cache
       IN Commit(AfterLoad(RenderedBetween(Client, ch, batched)), ch)
  /\ UNCHANGED <<mutation, pollInFlight, handoffs, hookVersion, submissionsLeft, scenarioVars>>
  /\ UNCHANGED serverVars

\* ------------------------------------------------------------- detectors
PollActive == processingStoryId # NULL /\ currentView # "feedback" /\ ~pollStopped

\* setInterval(pollForFeedback, 2000) ticks: getStoryById(processingStoryId)
PollTick ==
  /\ PollActive
  /\ pollInFlight[processingStoryId] < MaxCalls
  /\ pollInFlight' = [pollInFlight EXCEPT ![processingStoryId] = @ + 1]
  /\ UNCHANGED <<mutation, processingStoryId, cache, currentView, currentStory,
                 timers, loadInFlight, pollStopped, handoffs, alerts, lastExit,
                 hookVersion, submissionsLeft, scenarioVars>>
  /\ UNCHANGED serverVars

\* setTimeout(() => clearInterval(pollInterval), 30000)
PollCap ==
  /\ PollActive
  /\ pollStopped' = TRUE
  /\ UNCHANGED <<mutation, processingStoryId, cache, currentView, currentStory,
                 timers, pollInFlight, loadInFlight, handoffs, alerts, lastExit,
                 hookVersion, submissionsLeft, scenarioVars>>
  /\ UNCHANGED serverVars

\* what pollForFeedback does with the row getStoryById returned (113-138):
\* only completed with a non-empty story_feedback schedules the hand-off
AfterPoll(c, s, st, fb) ==
  IF st = "completed" /\ fb > 0
  THEN [c EXCEPT !.cur = NULL, !.timers[s] = Min(@ + 1, MaxTimers)]
  ELSE c

\* a failed attempt that would give up tracking the story
AfterPollErrorClearing(c) == ClearTracking(c, "pollError")
\* getStoryById gave null (skipped by `if (storyWithFeedback)`) or threw
\* (caught and logged, 139-141): no setter is called
AfterPollError(c) == c

\* getStoryById(s) settles inside pollForFeedback; an error or a missing row
\* gives null (ok = FALSE), otherwise the row as it is in the database now
GetStoryById(s, ok) ==
  /\ pollInFlight[s] > 0
  /\ pollInFlight' = [pollInFlight EXCEPT ![s] = @ - 1]
  /\ Commit(IF ok /\ status[s] # "none"
            THEN AfterPoll(Client, s, status[s], feedbackRows[s])
            ELSE AfterPollError(Client),
            cache)
  /\ UNCHANGED <<mutation, loadInFlight, handoffs, hookVersion, submissionsLeft, scenarioVars>>
  /\ UNCHANGED serverVars

PollForFeedback(s) == \E ok \in BOOLEAN : GetStoryById(s, ok)

\* the body of the 100 ms setTimeout (76-83, 129-135)
HandOff(c, s) ==
  [ClearTracking(c, "handoff") EXCEPT !.cur = s, !.view = "feedback"]

\* a 100 ms timer fires; nothing ever clears these timers
TimerFires(s) ==
  /\ timers[s] > 0
  /\ handoffs' = [handoffs EXCEPT ![s] = Sat(@ + 1)]
  /\ Commit(HandOff([Client EXCEPT !.timers[s] = @ - 1], s), cache)
  /\ UNCHANGED <<mutation, pollInFlight, loadInFlight, hookVersion, submissionsLeft, scenarioVars>>
  /\ UNCHANGED serverVars

\* a timeout body that would also alert the user
TimeoutHandlerAlerting(c) ==
  [ClearTracking(c, "timeout") EXCEPT !.alerts = Alerted(@), !.view = "record"]

\* the body of the 5-minute setTimeout (239-242)
TimeoutHandler(c) == ClearTracking(c, "timeout")

\* the 5-minute timer of the tracked id fires (v1 235-248; v2 has none)
Timeout ==
  /\ hookVersion = "v1"
  /\ processingStoryId # NULL
  /\ Commit(TimeoutHandler(Client), cache)
  /\ UNCHANGED <<mutation, pollInFlight, loadInFlight, handoffs, hookVersion, submissionsLeft, scenarioVars>>
  /\ UNCHANGED serverVars

\* ------------------------------------------------------------------ spec
\* no story exists, no invocation runs, the client shows the dashboard
InitBase ==
  /\ status = [s \in StoryIds |-> "none"]
  /\ feedbackRows = [s \in StoryIds |-> 0]
  /\ transcript = [s \in StoryIds |-> "none"]
  /\ inv = [i \in Slots |-> FreeInv]
  /\ events = {}
  /\ mutation = IdleMutation
  /\ processingStoryId = NULL
  /\ cache = [s \in StoryIds |-> NoCache]
  /\ currentView = "dashboard"
  /\ currentStory = NULL
  /\ timers = [s \in StoryIds |-> 0]
  /\ pollInFlight = [s \in StoryIds |-> 0]
  /\ loadInFlight = [s \in StoryIds |-> 0]
  /\ pollStopped = FALSE
  /\ handoffs = [s \in StoryIds |-> 0]
  /\ alerts = 0
  /\ lastExit = NoExit
  /\ today = 0
  /\ ledger = [s \in StoryIds |-> NoStory]
  /\ userStats = NoStats
  /\ grants = {}
  /\ writers = [w \in Writers |-> IdleWriter]

\* a client session recording n stories against a healthy deployment
InitWith(n) ==
  /\ InitBase
  /\ submissionsLeft = n
  /\ hookVersion \in HookVersions
  /\ infra = "healthy"
  /\ triggerVersion = "part_008"

Worker(i) ==
  \/ MarkProcessing(i)
  \/ TranscribeAudio(i)
  \/ GenerateFeedback(i)
  \/ SaveFeedback(i)
  \/ CompleteStory(i)
  \/ CheckAchievements(i)
  \/ CatchError(i)

Next ==
  \/ \E i \in Slots : Worker(i)
  \/ HandleStoryComplete
  \/ UploadAudio
  \/ CreateStory
  \/ TriggerProcessing
  \/ ResponseArrives
  \/ FetchRejects
  \/ \E s \in StoryIds : HandleGenerateFeedback(s)
  \/ \E e \in events : HandleUpdate(e)
  \/ \E e \in events : DropEvent(e)
  \/ \E s \in StoryIds : LoadStoryFeedback(s)
  \/ PollTick
  \/ PollCap
  \/ \E s \in StoryIds : PollForFeedback(s)
  \/ \E s \in StoryIds : TimerFires(s)
  \/ Timeout
  \/ Rerender
  \/ \E v \in Views : HandleViewChange(v)
  \/ RefetchStories

\* ------------------------------------------------- server-side requests
\* INSERT INTO stories by any client of the owner; the stats trigger runs with it
InsertStoryOf(d, g) ==
  /\ submissionsLeft > 0
  /\ \E s \in StoryIds : status[s] = "none"
  /\ ~InFlight(NextId)                  \* ids are uuids: never handed out twice
  /\ submissionsLeft' = submissionsLeft - 1
  /\ status' = [status EXCEPT ![NextId] = "pending"]
  /\ InsertRowOf(NextId, d, g)
  /\ UNCHANGED <<feedbackRows, transcript, inv, events, grants,
                 hookVersion, scenarioVars>>
  /\ UNCHANGED clientVars

InsertStory(d) == InsertStoryOf(d, RecordedGenre)

\* POST /functions/v1/process-story { storyId, audioUrl } sent by user u, who
\* awaits the response.  The handler builds a service-role client (21-26) and
\* never reads the Authorization header: u decides nothing
InvokeProcessStoryAs(u, s) ==
  /\ status[s] # "none"
  /\ HasFreeSlot
  /\ inv' = [StartInvocation(s, "request") EXCEPT ![FreeSlot].waiter = TRUE,
                                                  ![FreeSlot].caller = u]
  /\ UNCHANGED <<status, feedbackRows, transcript, events, hookVersion, submissionsLeft, scenarioVars>>
  /\ UNCHANGED statsVars
  /\ UNCHANGED clientVars

\* delete-story: the row goes (its feedback with it, ON DELETE CASCADE), then
\* updateUserStatsAfterDeletion runs inside try/catch; ok tells whether its
\* select and its update went through
DeleteStoryWith(s, ok) ==
  LET l == [ledger EXCEPT ![s] = NoStory] IN
  /\ status[s] # "none"
  /\ status' = [status EXCEPT ![s] = "none"]
  /\ feedbackRows' = [feedbackRows EXCEPT ![s] = 0]
  /\ transcript' = [transcript EXCEPT ![s] = "none"]
  /\ ledger' = l
  /\ userStats' = IF ok THEN UpdateUserStatsAfterDeletion(userStats, l, today)
                  ELSE userStats
  /\ UNCHANGED <<inv, events, grants, hookVersion, submissionsLeft, scenarioVars>>
  /\ UNCHANGED clientVars

DeleteStory(s) == \E ok \in ReadResults : DeleteStoryWith(s, ok)

InvokeProcessStory(s) == InvokeProcessStoryAs(StoryOwner, s)

\* POST /functions/v1/delete-story { storyId } sent by user u: the handler
\* builds a service-role client (19-24), looks the story up by id alone
\* (41-46) and deletes it by id alone (85-89)
DeleteStoryAs(u, s, ok) == DeleteStoryWith(s, ok)

\* midnight passes
AdvanceDay ==
  /\ today < MaxDay
  /\ today' = today + 1
  /\ UNCHANGED <<infra, triggerVersion, writers, hookVersion, submissionsLeft>>
  /\ UNCHANGED serverVars
  /\ UNCHANGED clientVars

\* ------------------------------------------- concurrent stats writers
\* ids are uuids: an insert that has not committed yet holds its own
Reserved(s) == \E w \in Writers : writers[w].pc = "inserting" /\ writers[w].story = s
NewId == CHOOSE s \in StoryIds : status[s] = "none" /\ ~Reserved(s)

\* INSERT INTO stories in session w: the AFTER INSERT trigger starts and
\* part_008 reads the stats row into user_stats_record (36-38); the new
\* story row is not visible to other sessions before the commit
InsertSelect(w, d) ==
  /\ writers[w].pc = "idle"
  /\ submissionsLeft > 0
  /\ \E s \in StoryIds : status[s] = "none" /\ ~Reserved(s)
  /\ submissionsLeft' = submissionsLeft - 1
  /\ writers' = [writers EXCEPT ![w] = [IdleWriter EXCEPT !.pc = "inserting",
                                                        !.story = NewId, !.dur = d,
                                                        !.seq = Stamp,
                                                        !.record = userStats]]
  /\ UNCHANGED <<infra, triggerVersion, today, hookVersion>>
  /\ UNCHANGED serverVars
  /\ UNCHANGED clientVars

\* the write of the trigger and the commit.  late_flame upserts relative to
\* the row as it is now (ON CONFLICT DO UPDATE, 214-220).  part_008 writes
\* the values it computed from user_stats_record (62-88); its INSERT branch
\* (42-56) hits the primary key when another session created the row
\* meanwhile, and the whole INSERT INTO stories is rolled back
InsertCommit(w) ==
  LET t == writers[w]
      aborted == triggerVersion = "part_008" /\ ~t.record.exists /\ userStats.exists
      l == [ledger EXCEPT ![t.story] = [present |-> TRUE, day |-> today, dur |-> t.dur,
                                        genre |-> RecordedGenre, seq |-> t.seq]]
  IN
  /\ t.pc = "inserting"
  /\ writers' = [writers EXCEPT ![w] = IdleWriter]
  /\ IF aborted
     THEN UNCHANGED <<status, ledger, userStats>>
     ELSE /\ status' = [status EXCEPT ![t.story] = "pending"]
          /\ ledger' = l
          /\ userStats' =
               IF triggerVersion = "late_flame"
               THEN UpdateUserStatsLateFlame(userStats, today, t.dur)
               ELSE [UpdateUserStatsPart008(t.record, today, t.dur)
                       EXCEPT !.updated_at = userStats.updated_at + 1,
                              !.favorite_genre = IF t.record.exists THEN RecordedGenre
                                                 ELSE NoGenre]
  /\ UNCHANGED <<feedbackRows, transcript, inv, events, grants>>
  /\ UNCHANGED <<infra, triggerVersion, today, hookVersion, submissionsLeft>>
  /\ UNCHANGED clientVars

\* delete-story in session w: the row is deleted (85-89) and
\* updateUserStatsAfterDeletion selects the remaining stories (138-143)
DeleteSelect(w, s) ==
  LET l == [ledger EXCEPT ![s] = NoStory] IN
  /\ writers[w].pc = "idle"
  /\ status[s] # "none"
  /\ status' = [status EXCEPT ![s] = "none"]
  /\ feedbackRows' = [feedbackRows EXCEPT ![s] = 0]
  /\ transcript' = [transcript EXCEPT ![s] = "none"]
  /\ ledger' = l
  /\ writers' = [writers EXCEPT ![w] = [IdleWriter EXCEPT !.pc = "recomputing",
                                                        !.story = s, !.rows = l]]
  /\ UNCHANGED <<inv, events, userStats, grants>>
  /\ UNCHANGED <<infra, triggerVersion, today, hookVersion, submissionsLeft>>
  /\ UNCHANGED clientVars

\* .from('user_stats').update({...}).eq('user_id', userId) (180-191) with the
\* totals computed from the rows selected before
DeleteUpdate(w) ==
  /\ writers[w].pc = "recomputing"
  /\ userStats' = UpdateUserStatsAfterDeletion(userStats, writers[w].rows, today)
  /\ writers' = [writers EXCEPT ![w] = IdleWriter]
  /\ UNCHANGED <<status, feedbackRows, transcript, inv, events, ledger, grants>>
  /\ UNCHANGED <<infra, triggerVersion, today, hookVersion, submissionsLeft>>
  /\ UNCHANGED clientVars

\* a session in which one story is recorded
Init == InitWith(1)
Spec == Init /\ [][Next]_vars

\* the same session when the realtime channel delivers nothing: every
\* UPDATE event is dropped.  Timers that are armed fire, requests that were
\* sent are answered and the worker runs on; the 30 s cap, the renders caused
\* from outside and the user's navigation may or may not happen.  Feedback
\* is loaded only from the UPDATE handler, so no load is ever started
NextLossy ==
  \/ \E i \in Slots : Worker(i)
  \/ HandleStoryComplete
  \/ UploadAudio
  \/ CreateStory
  \/ TriggerProcessing
  \/ ResponseArrives
  \/ FetchRejects
  \/ \E s \in StoryIds : HandleGenerateFeedback(s)
  \/ \E e \in events : DropEvent(e)
  \/ PollTick
  \/ PollCap
  \/ \E s \in StoryIds : PollForFeedback(s)
  \/ \E s \in StoryIds : TimerFires(s)
  \/ Timeout
  \/ Rerender
  \/ \E v \in Views : HandleViewChange(v)
  \/ RefetchStories

FairLossy ==
  /\ \A i \in Slots : WF_vars(Worker(i))
  /\ WF_vars(TriggerProcessing)
  /\ WF_vars(ResponseArrives)
  /\ SF_vars(PollTick)                  \* a running interval keeps ticking
  /\ \A s \in StoryIds : SF_vars(GetStoryById(s, TRUE))  \* errors are transient
  /\ \A s \in StoryIds : WF_vars(TimerFires(s))
  /\ WF_vars(Timeout)
  /\ \A e \in [id : StoryIds, status : Statuses] : WF_vars(DropEvent(e))

SpecLossy == Init /\ [][NextLossy]_vars /\ FairLossy

\* a session in which several stories are recorded, one after the other
InitSeveral == InitWith(MaxStories)
SpecSeveral == InitSeveral /\ [][Next]_vars

\* the edge function alone: stories are inserted and process-story is requested
\* any number of times, against a deployment whose calls and reads may fail
InitWorker ==
  /\ InitBase
  /\ submissionsLeft = 1
  /\ hookVersion = "v1"
  /\ infra = "flaky"
  /\ triggerVersion \in TriggerVersions

NextWorker ==
  \/ \E d \in Durations : InsertStory(d)
  \/ \E s \in StoryIds : InvokeProcessStory(s)
  \/ \E i \in Slots : Worker(i)

SpecWorker == InitWorker /\ [][NextWorker]_vars

\* the edge function with a backlog: the owner records several stories, and
\* process-story may run for any of them after any number of inserts
InitBacklog ==
  /\ InitBase
  /\ submissionsLeft = MaxStories
  /\ hookVersion = "v1"
  /\ infra = "flaky"
  /\ triggerVersion \in TriggerVersions

NextBacklog ==
  \/ \E d \in Durations : InsertStory(d)
  \/ \E s \in StoryIds : InvokeProcessStory(s)
  \/ \E i \in Slots : Worker(i)

SpecBacklog == InitBacklog /\ [][NextBacklog]_vars

\* the owner's statistics alone: stories are inserted and deleted as days pass
StatsSubmissions == MaxStories + 1

InitStats ==
  /\ InitBase
  /\ submissionsLeft = StatsSubmissions
  /\ hookVersion = "v1"
  /\ infra = "flaky"
  /\ triggerVersion \in TriggerVersions

NextStats ==
  \/ \E d \in Durations : InsertStory(d)
  \/ \E s \in StoryIds : DeleteStory(s)
  \/ AdvanceDay

SpecStats == InitStats /\ [][NextStats]_vars

\* ------------------------------ the third iteration of useStories (510-821)
\* completedStories.sort((a, b) => b.created_at - a.created_at)[0]; in this
\* specification the stories were created in the order of their ids
MostRecentCompleted(ch) ==
  CHOOSE s \in StoryIds :
    /\ ch[s].present /\ ch[s].status = "completed"
    /\ \A r \in StoryIds : (ch[r].present /\ ch[r].status = "completed") => r <= s

\* the completed-story effect (768-797) run with processingStoryId = pid
\* against the cached list ch: the tracked id it leaves and the story whose
\* feedback it asks loadStoryFeedback for
CompletedStoryEffectV3(pid, ch) ==
  LET present == {s \in StoryIds : ch[s].present}
      completed == {s \in present : ch[s].status = "completed"}
      exact == IF pid \in present THEN pid ELSE NULL
      target == IF (exact = NULL \/ ch[exact].status = "pending") /\ completed # {}
                THEN MostRecentCompleted(ch) ELSE exact
  IN
  IF pid = NULL \/ present = {} THEN [pid |-> pid, load |-> NULL]
  ELSE IF target # NULL /\ ch[target].status = "completed"
       THEN IF ch[target].fb > 0 THEN [pid |-> NULL, load |-> NULL]
            ELSE [pid |-> pid, load |-> target]
       ELSE [pid |-> pid, load |-> NULL]

\* the effect runs after a render in which stories or processingStoryId changed
RunEffectV3 ==
  LET r == CompletedStoryEffectV3(processingStoryId, cache) IN
  /\ hookVersion = "v3"
  /\ processingStoryId # NULL
  /\ r.pid # processingStoryId \/ (r.load # NULL /\ loadInFlight[r.load] < MaxCalls)
  /\ processingStoryId' = r.pid
  /\ loadInFlight' = IF r.load = NULL THEN loadInFlight
                     ELSE [loadInFlight EXCEPT ![r.load] = @ + 1]
  /\ UNCHANGED <<mutation, cache, currentView, currentStory, timers, pollInFlight,
                 pollStopped, handoffs, alerts, lastExit,
                 hookVersion, submissionsLeft, scenarioVars>>
  /\ UNCHANGED serverVars

\* loadStoryFeedback(s) of the third iteration settles (612-644): the rows
\* selected replace story_feedback of the cached story, and a non-empty
\* result clears processingStoryId whichever story is tracked
LoadStoryFeedbackV3(s, ok) ==
  /\ hookVersion = "v3"
  /\ loadInFlight[s] > 0
  /\ loadInFlight' = [loadInFlight EXCEPT ![s] = @ - 1]
  /\ cache' = IF ok /\ cache[s].present
              THEN [cache EXCEPT ![s].fb = feedbackRows[s]] ELSE cache
  /\ processingStoryId' = IF ok /\ feedbackRows[s] > 0 THEN NULL ELSE processingStoryId
  /\ UNCHANGED <<mutation, currentView, currentStory, timers, pollInFlight,
                 pollStopped, handoffs, alerts, lastExit,
                 hookVersion, submissionsLeft, scenarioVars>>
  /\ UNCHANGED serverVars

\* user_stats after the insert trigger of part_008 ran for n short stories
RECURSIVE InsertedStats(_)
InsertedStats(n) ==
  IF n = 0 THEN NoStats
  ELSE [UpdateUserStatsPart008(InsertedStats(n - 1), 0, ShortSeconds)
          EXCEPT !.favorite_genre = IF n = 1 THEN NoGenre ELSE RecordedGenre]

\* a session of the third iteration that tracks one of the owner's stories:
\* every story exists in some status; the cached row of a story is the stored
\* one or still the pending row onSuccess put there, with or without feedback
InitV3 ==
  /\ status \in [StoryIds -> Statuses]
  /\ feedbackRows \in [StoryIds -> 0..1]
  /\ \A s \in StoryIds : status[s] = "completed" => feedbackRows[s] = 1
  /\ \A s \in StoryIds : status[s] = "pending" => feedbackRows[s] = 0
  /\ transcript = [s \in StoryIds |-> IF status[s] = "completed" THEN "real" ELSE "none"]
  /\ inv = [i \in Slots |-> FreeInv]
  /\ events = {}
  /\ mutation = IdleMutation
  /\ processingStoryId \in StoryIds
  /\ cache \in [StoryIds -> [present : {TRUE}, status : Statuses, fb : 0..1]]
  /\ \A s \in StoryIds : /\ cache[s].status \in {status[s], "pending"}
                         /\ cache[s].fb \in {0, feedbackRows[s]}
                         /\ cache[s].status = "pending" => cache[s].fb = 0
  /\ currentView = "record"
  /\ currentStory = NULL
  /\ timers = [s \in StoryIds |-> 0]
  /\ pollInFlight = [s \in StoryIds |-> 0]
  /\ loadInFlight = [s \in StoryIds |-> 0]
  /\ pollStopped = FALSE
  /\ handoffs = [s \in StoryIds |-> 0]
  /\ alerts = 0
  /\ lastExit = NoExit
  /\ today = 0
  /\ ledger = [s \in StoryIds |-> [present |-> TRUE, day |-> 0, dur |-> ShortSeconds,
                                   genre |-> RecordedGenre, seq |-> s]]
  /\ userStats = InsertedStats(MaxStories)
  /\ grants = {}
  /\ writers = [w \in Writers |-> IdleWriter]
  /\ submissionsLeft = 0
  /\ hookVersion = "v3"
  /\ infra = "flaky"
  /\ triggerVersion = "part_008"

NextV3 ==
  \/ RunEffectV3
  \/ \E s \in StoryIds, ok \in ReadResults : LoadStoryFeedbackV3(s, ok)

SpecV3 == InitV3 /\ [][NextV3]_vars

\* the owner's favourite genre: stories of either genre are inserted and deleted
InitGenres ==
  /\ InitBase
  /\ submissionsLeft = StatsSubmissions
  /\ hookVersion = "v1"
  /\ infra = "healthy"
  /\ triggerVersion \in TriggerVersions

NextGenres ==
  \/ \E d \in Durations, g \in Genres : InsertStoryOf(d, g)
  \/ \E s \in StoryIds : DeleteStory(s)

SpecGenres == InitGenres /\ [][NextGenres]_vars

\* several database sessions insert and delete stories of one owner at once
InitConcurrent ==
  /\ InitBase
  /\ submissionsLeft = StatsSubmissions
  /\ hookVersion = "v1"
  /\ infra = "healthy"
  /\ triggerVersion \in TriggerVersions

NextConcurrent ==
  \/ \E w \in Writers, d \in Durations : InsertSelect(w, d)
  \/ \E w \in Writers : InsertCommit(w)
  \/ \E w \in Writers, s \in StoryIds : DeleteSelect(w, s)
  \/ \E w \in Writers : DeleteUpdate(w)

SpecConcurrent == InitConcurrent /\ [][NextConcurrent]_vars

\* the two edge functions together: a story is inserted, processed any number
\* of times and deleted, also while an invocation is running
InitLifecycle ==
  /\ InitBase
  /\ submissionsLeft = 1
  /\ hookVersion = "v1"
  /\ infra = "flaky"
  /\ triggerVersion \in TriggerVersions

NextLifecycle ==
  \/ \E d \in Durations : InsertStory(d)
  \/ \E u \in Users, s \in StoryIds : InvokeProcessStoryAs(u, s)
  \/ \E i \in Slots : Worker(i)
  \/ \E u \in Users, s \in StoryIds, ok \in ReadResults : DeleteStoryAs(u, s, ok)

SpecLifecycle == InitLifecycle /\ [][NextLifecycle]_vars

TypeOK ==
  /\ status \in [StoryIds -> Statuses \cup {"none"}]
  /\ feedbackRows \in [StoryIds -> 0..MaxCount]
  /\ transcript \in [StoryIds -> {"none", "real", "mock"}]
  /\ processingStoryId \in StoryIds \cup {NULL}
  /\ currentStory \in StoryIds \cup {NULL}
  /\ currentView \in Views
  /\ Cardinality(events) <= MaxEvents
  /\ today \in Days
  /\ \A s \in StoryIds : ledger[s].present <=> status[s] # "none"
  /\ \A s \in StoryIds : ledger[s].day \in Days /\ ledger[s].dur \in Durations \cup {0}
  /\ userStats.total_stories \in 0..StatsSubmissions
  /\ userStats.last_story_date \in Days \cup {NoDate}
  /\ grants \subseteq Achievements

C2_CompletedIffOneFeedback ==
  \A s \in StoryIds :
    (status[s] # "none" /\ ~InFlight(s)) =>
      (status[s] = "completed" <=> feedbackRows[s] = 1)

\* C3 as stated: the detectors together cause at most one hand-off to the
\* feedback view per tracked story
C3_AtMostOneHandOff ==
  \A s \in StoryIds : handoffs[s] <= 1

\* C4 as stated: an invocation that fails after it has marked the story
\* processing leaves the story failed when it returns
C4_FailureEndsFailed ==
  [][\A i \in Slots :
       (inv[i].marked /\ CatchError(i)) => status'[inv[i].story] = "failed"]_vars

\* C5: a story with processing_status = completed has at least one
\* story_feedback row (completed is written only after the insert succeeded)
C5_CompletedHasFeedback ==
  \A s \in StoryIds : status[s] = "completed" => feedbackRows[s] >= 1

\* C5 witness: the worker has completed a story whose feedback it inserted
C5_CompletedWithFeedback ==
  \E s \in StoryIds : status[s] = "completed" /\ feedbackRows[s] >= 1 /\ ~InFlight(s)

\* C6 as stated: the client leaves tracking through the completion path only
\* while the tracked story's feedback is visible to it (the hand-off timer is
\* set only on a row seen with feedback, so the path in question is the
\* realtime handler's continuation of loadStoryFeedback)
C6_LeavesOnlyWithFeedback ==
  [][\A s \in StoryIds :
       (processingStoryId = s /\ processingStoryId' = NULL /\ lastExit'.why = "loaded")
         => (cache'[s].present /\ cache'[s].fb > 0)]_vars

\* C7 as stated: tracking left because the story completed never ends idle,
\* with nothing pending, and the story never handed to the feedback view
C7_CompletionIsShown ==
  \A s \in StoryIds :
    ( /\ processingStoryId = NULL
      /\ lastExit = [why |-> "loaded", story |-> s]
      /\ cache[s].present /\ cache[s].status = "completed" /\ cache[s].fb > 0
      /\ timers[s] = 0 /\ pollInFlight[s] = 0 /\ loadInFlight[s] = 0 )
    => handoffs[s] >= 1

\* C8 as stated: when the job of the tracked story has failed (status failed,
\* or the status a failed invocation leaves behind), a poll that returns the
\* row makes the client leave tracking with the error outcome
C8_PollResolvesFailure ==
  [][\A s \in StoryIds :
       ( /\ processingStoryId = s
         /\ \/ status[s] = "failed"
            \/ status[s] = "processing" /\ ~InFlight(s)
         /\ GetStoryById(s, TRUE) )
       => ( /\ processingStoryId' = NULL
            /\ currentView' = "record"
            /\ alerts' = Alerted(alerts) )]_vars

C10_StaleDetectorIsInert ==
  [][\A s \in StoryIds :
       ( /\ processingStoryId \notin {NULL, s}
         /\ TimerFires(s) \/ PollForFeedback(s) \/ LoadStoryFeedback(s) )
       => ( /\ processingStoryId' = processingStoryId
            /\ currentView' = currentView
            /\ currentStory' = currentStory )]_vars

\* C11 as stated: a story has at most one story_feedback row in every
\* reachable state, also when process-story runs twice for the same story
C11_AtMostOneFeedbackRow ==
  \A s \in StoryIds : feedbackRows[s] <= 1

\* C12 as stated: achievement grants are idempotent; a grant attempt of
\* checkAchievements, the first for an owner or a repeated one, ends without
\* an error, and afterwards the owner holds the achievement (in grants, which
\* has at most one row per achievement)
C12_GrantAttemptIsIdempotent ==
  [][\A i \in Slots : \A readOk \in BOOLEAN :
       (/\ CheckAchievementsWith(i, readOk)
        /\ ToGrant(inv[i].story, readOk) # << >>)
         => (/\ GrantOutcome(ToGrant(inv[i].story, readOk)[1]) # "threw"
             /\ ToGrant(inv[i].story, readOk)[1] \in grants')]_vars

C15_AchievementFailureKeepsCompleted ==
  [][\A i \in Slots : \A readOk \in BOOLEAN :
       CheckAchievementsWith(i, readOk) =>
         /\ status' = status
         /\ inv[i].waiter => mutation'.resp = "ok"
         /\ inv'[i] = FreeInv]_vars

\* C15 witness: a story whose first_story criterion holds is completed with no
\* invocation left (its checkAchievements run failed at a read or at the
\* grant) and the requester got success
C15_FailedGrantReportedSuccess ==
  /\ mutation.resp = "ok"
  /\ \E s \in StoryIds : /\ status[s] = "completed"
                         /\ ~InFlight(s)
                         /\ ToGrant(s, TRUE) # << >>
                         /\ GrantOutcome(ToGrant(s, TRUE)[1]) = "threw"

StoryDays(l) == {l[s].day : s \in PresentIn(l)}

\* the day of stories[0] in the order created_at descending
MostRecentDay(D) == CHOOSE d \in D : \A e \in D : e <= d

\* calculate_user_streak with check_date starting at d: the number of
\* consecutive days of D counted back from d
RunEndingAt(D, d) ==
  CHOOSE n \in 0..(MaxDay + 1) :
    /\ \A k \in 0..(n - 1) : (d - k) \in D
    /\ (d - n) \notin D

\* a step that wrote user_stats: the insert trigger, or the recomputation
\* after a delete when it went through
StatsUpdated ==
  \/ \E d \in Durations : InsertStory(d)
  \/ \E s \in StoryIds : DeleteStoryWith(s, TRUE)

\* C17 as stated: after every stats update by the part_008 trigger or by the
\* post-delete recomputation, current_streak is the number of consecutive
\* story days walking back from the most recent story's day
C17_CurrentStreakIsRun ==
  [][(triggerVersion = "part_008" /\ StatsUpdated) =>
       LET D == StoryDays(ledger') IN
       userStats'.current_streak =
         (IF D = {} THEN 0 ELSE RunEndingAt(D, MostRecentDay(D)))]_vars

\* C18 as stated: after every stats update by the part_008 trigger or by the
\* post-delete recomputation, current_streak is at least 1 when the most recent
\* story is dated today or yesterday and 0 when it is dated earlier
C18_StreakActiveUntilYesterday ==
  [][(/\ triggerVersion = "part_008"
      /\ StatsUpdated
      /\ StoryDays(ledger') # {}) =>
       IF MostRecentDay(StoryDays(ledger')) >= today - 1
       THEN userStats'.current_streak >= 1
       ELSE userStats'.current_streak = 0]_vars

\* C19 as stated: after every stats update (story insert or post-delete
\* recomputation) longest_streak is the longest run of consecutive story days
\* over the stories the owner has then
C19_LongestStreakIsMaxRun ==
  [][StatsUpdated =>
       LET D == StoryDays(ledger') IN
       /\ \A d \in D : RunEndingAt(D, d) <= userStats'.longest_streak
       /\ \/ \E d \in D : RunEndingAt(D, d) = userStats'.longest_streak
          \/ D = {} /\ userStats'.longest_streak = 0]_vars

\* C20 as stated: after every stats update total_minutes is the sum of
\* ceil(duration_seconds / 60) over the stories the owner has then
C20_TotalMinutesIsSumOfCeil ==
  [][StatsUpdated =>
       userStats'.total_minutes = TotalMinutes(ledger', PresentIn(ledger'))]_vars

C23_MarathonGranted ==
  [][\A i \in Slots :
       (/\ CheckAchievementsWith(i, TRUE)
        /\ status[inv[i].story] = "completed"
        /\ ledger[inv[i].story].dur >= MarathonSeconds)
         => "marathon_storyteller" \in grants']_vars

\* C24 as stated: when the audio upload or the creation of the story row
\* fails, the error is surfaced to the submitter (an alert) and the client is
\* not tracking afterwards: processingStoryId is null and no poll is in flight
C24_SubmissionFailureSurfaced ==
  [][(mutation.phase \in {"upload", "create"} /\ mutation'.phase = "idle") =>
       /\ alerts' > alerts
       /\ processingStoryId' = NULL
       /\ pollInFlight' = pollInFlight]_vars
\* C25: a poll attempt that fails (getStoryById gives null or throws) leaves
\* processingStoryId, the current view and the current story as they were,
\* and leaves the interval running so the next tick polls again.
C25_FailedPollChangesNothing ==
  [][\A s \in StoryIds :
       GetStoryById(s, FALSE) =>
         /\ processingStoryId' = processingStoryId
         /\ currentView' = currentView
         /\ currentStory' = currentStory
         /\ pollStopped' = pollStopped]_vars

\* a tracked story whose poll call is in flight while the client still
\* waits outside the feedback view: the call may now fail
C25_PollInFlightWhileTracked ==
  \E s \in StoryIds :
    /\ processingStoryId = s
    /\ pollInFlight[s] > 0
    /\ currentView # "feedback"
    /\ ~pollStopped

\* C26: the client never writes the processing_status of an existing story:
\* every step that changes the status of a stored story is a step of the
\* process-story worker, and the steps in which the trigger response
\* arrives or the fetch rejects leave the stored story as it was.
C26_StatusIsWorkerOwned ==
  [][\A s \in StoryIds :
       (status[s] # "none" /\ status'[s] # "none" /\ status'[s] # status[s])
         => \E i \in Slots : Worker(i)]_vars

\* C27: the submitter does not wait for the process-story invocation it
\* started: the client is already tracking the created story when that
\* invocation moves the story to completed or failed.
C27_TransitionWhileTracked ==
  [][\A i \in Slots :
       (/\ Worker(i)
        /\ inv[i].origin = "submit"
        /\ status[inv[i].story] \notin {"completed", "failed"}
        /\ status'[inv[i].story] \in {"completed", "failed"})
         => processingStoryId = inv[i].story]_vars

\* C28: when every push event is lost, a tracked story that is completed
\* and has its feedback row is eventually shown in the feedback view by the
\* poll path alone, however late in the tracking window it completed.
\* A tracking that the 5-minute timeout has ended is not counted against
\* the poll path.
C28_PollEventuallyResolves ==
  \A s \in StoryIds :
    (processingStoryId = s /\ status[s] = "completed" /\ feedbackRows[s] > 0)
      ~> \/ currentView = "feedback" /\ currentStory = s
         \/ lastExit = [why |-> "timeout", story |-> s]

\* C29: story writes are scoped by owner: a delete-story or process-story
\* request issued by a user who does not own the story never deletes it,
\* never changes its status and never recomputes the owner's stats.
C29_WritesScopedByOwner ==
  [][\A u \in Users \ {StoryOwner} :
       /\ \A s \in StoryIds, ok \in BOOLEAN :
            DeleteStoryAs(u, s, ok) =>
              status' = status /\ ledger' = ledger /\ userStats' = userStats
       /\ \A i \in Slots :
            (inv[i].caller = u /\ Worker(i)) => status' = status]_vars

\* C30: concurrent stats writers of one owner lose no update: once every
\* insert and every post-delete recomputation has finished, total_stories
\* is the number of stories the owner has, whatever the interleaving was.
C30_ConcurrentWritersConverge ==
  ((\A w \in Writers : writers[w].pc = "idle") /\ userStats.exists)
    => userStats.total_stories = Cardinality(PresentIn(ledger))

\* C21: favorite_genre is the genre with the highest story count among the
\* owner's stories; when several genres tie for the highest count it is
\* the tied genre that holds the most recently created story.
C21_FavoriteGenreIsTopGenre ==
  LET l == ledger
      MostRecentTopGenre ==
        CHOOSE g \in TopGenres(l) :
          \E s \in PresentIn(l) :
            /\ l[s].genre = g
            /\ \A r \in PresentIn(l) :
                 l[r].genre \in TopGenres(l) => l[s].seq >= l[r].seq
  IN  (userStats.exists /\ PresentIn(l) # {})
        => userStats.favorite_genre = MostRecentTopGenre

C32_StaleEventNeverMovesBack ==
  [][\A e \in events :
       (/\ HandleUpdate(e)
        /\ e.status = "processing"
        /\ status[e.id] = "completed"
        /\ cache[e.id].present
        /\ cache[e.id].status = "completed")
         => cache'[e.id].status = "completed"]_vars

\* C33: the client leaves tracking through the completion path only when
\* the story whose id is the tracked id is itself completed: the completion
\* or the feedback of another story of the owner never clears
\* processingStoryId.
C33_OnlyTrackedStoryResolves ==
  [][\A s \in StoryIds :
       (processingStoryId = s /\ processingStoryId' = NULL)
         => (cache[s].present /\ cache[s].status = "completed")]_vars

C35_TrackingEventuallyEnds ==
  (processingStoryId # NULL) ~> (processingStoryId = NULL)

\* C36: in every user_stats row longest_streak is at least current_streak,
\* after any sequence of story insertions (trigger) and story deletions
\* (recomputation that rewrites current_streak but not longest_streak).
C36_LongestCoversCurrent ==
  userStats.exists => userStats.longest_streak >= userStats.current_streak

\* C37: in any interleaving of delete-story with a process-story invocation
\* for the same story, no story_feedback row references a story that no
\* longer exists, and no step of the late worker writes the deleted story
\* back or announces a status for it.
C37_DeleteWinsOverLateWorker ==
  [][/\ \A s \in StoryIds : status'[s] = "none" => feedbackRows'[s] = 0
     /\ \A i \in Slots, s \in StoryIds :
          (Worker(i) /\ status[s] = "none") =>
            /\ status'[s] = "none"
            /\ \A e \in events' \ events : e.id # s]_vars

\* an invocation has issued its final update after its story was deleted
C37_WorkerOutlivedStory ==
  \E i \in Slots :
    /\ inv[i].pc = "achievements"
    /\ inv[i].marked
    /\ status[inv[i].story] = "none"
    /\ feedbackRows[inv[i].story] = 0

\* C38: once an owner has a completed story a first_story grant exists for
\* that owner: when checkAchievements has run, its reads answered, for a
\* story that is completed, first_story is among the owner's grants, also
\* when two stories were submitted before the first of them completed.
C38_FirstStoryGranted ==
  [][\A i \in Slots :
       (CheckAchievementsWith(i, TRUE) /\ status[inv[i].story] = "completed")
         => "first_story" \in grants']_vars


====
